---- MODULE Spec2Model ----
(***************************************************************************)
(* Model of SiteWorker: agent.py (PageParser, the four agents, main) and   *)
(* openai_module.py (OpenAIClient and its three retried operations).       *)
(*                                                                         *)
(* Python str values are sequences of one-character strings.  Exception    *)
(* messages are sequences of message fragments.  A tenacity-decorated      *)
(* function is modelled one attempt per step: the attempt counter is the   *)
(* retry state tenacity keeps between attempts.  The source's Cyrillic     *)
(* literals are written transliterated, the module being ASCII.            *)
(***************************************************************************)
EXTENDS Integers, Sequences, FiniteSets, TLC

(***************************************************************************)
(* Bounds of the model.                                                    *)
(***************************************************************************)
\* most elements of a modelled HTML page
MaxElems == 2
\* most characters of a response to generate_questions
MaxContentLen == 5
\* largest requested count (num_questions, num_recommendations)
MaxCount == 2
\* most items of one block of a response to generate_ux_report
MaxBlockItems == 6
\* most lines of a response to classify_content
MaxClassifyLines == 3
\* most characters of a model name (constructor argument or OPENAI_MODEL)
MaxNameLen == 2
\* most lines of a response scanned line by line by generate_ux_report
MaxScanLines == 3

(***************************************************************************)
(* Program constants.                                                      *)
(***************************************************************************)
\* agent.py:131 (and 188, 249, 310): len(text.strip()) < 50
MinTextLen == 50
\* default num_questions / num_recommendations (agent.py:106, openai_module.py:198)
DefaultCount == 5

(***************************************************************************)
(* Python str primitives on sequences of characters.                       *)
(***************************************************************************)
Whitespace == {" ", "\n", "\t"}

Rep(c, n) == [i \in 1..n |-> c]

Last(s) == s[Len(s)]

Front(s) == SubSeq(s, 1, Len(s) - 1)

RECURSIVE LStripChars(_, _)
\* str.lstrip(chars): drop the longest prefix made of characters of chars
LStripChars(s, chars) ==
  IF s # <<>> /\ Head(s) \in chars THEN LStripChars(Tail(s), chars) ELSE s

RECURSIVE RStripChars(_, _)
RStripChars(s, chars) ==
  IF s # <<>> /\ Last(s) \in chars THEN RStripChars(Front(s), chars) ELSE s

\* str.strip()
Strip(s) == RStripChars(LStripChars(s, Whitespace), Whitespace)

\* str.startswith(p)
StartsWith(s, p) == Len(s) >= Len(p) /\ SubSeq(s, 1, Len(p)) = p

\* whether sub occurs in s as a contiguous run (Python's `sub in s`)
Contains(s, sub) ==
  \E i \in 0..(Len(s) - Len(sub)) : SubSeq(s, i + 1, i + Len(sub)) = sub

RECURSIVE SplitChar(_, _)
\* str.split(c) for a one-character separator
SplitChar(s, c) ==
  IF \E i \in 1..Len(s) : s[i] = c
  THEN LET i == CHOOSE k \in 1..Len(s) : s[k] = c /\ \A j \in 1..(k - 1) : s[j] # c
       IN  <<SubSeq(s, 1, i - 1)>> \o SplitChar(SubSeq(s, i + 1, Len(s)), c)
  ELSE <<s>>

\* str.splitlines() on text whose only line boundary is "\n"
SplitLines(s) ==
  IF s = <<>> THEN <<>>
  ELSE LET parts == SplitChar(s, "\n")
       IN  IF Last(parts) = <<>> THEN Front(parts) ELSE parts

RECURSIVE SplitDoubleSpace(_)
\* str.split("  "): leftmost, non-overlapping occurrences of two spaces
SplitDoubleSpace(s) ==
  IF \E i \in 1..(Len(s) - 1) : s[i] = " " /\ s[i + 1] = " "
  THEN LET i == CHOOSE k \in 1..(Len(s) - 1) :
                  /\ s[k] = " " /\ s[k + 1] = " "
                  /\ \A j \in 1..(k - 1) : ~(s[j] = " " /\ s[j + 1] = " ")
       IN  <<SubSeq(s, 1, i - 1)>> \o SplitDoubleSpace(SubSeq(s, i + 2, Len(s)))
  ELSE <<s>>

RECURSIVE Join(_, _)
\* sep.join(parts)
Join(parts, sep) ==
  IF parts = <<>> THEN <<>>
  ELSE IF Len(parts) = 1 THEN parts[1]
  ELSE parts[1] \o sep \o Join(Tail(parts), sep)

RECURSIVE Flatten(_)
Flatten(ss) == IF ss = <<>> THEN <<>> ELSE Head(ss) \o Flatten(Tail(ss))

\* s[:n], including Python's reading of a negative n (drop the last -n)
SliceTo(s, n) ==
  LET stop == IF n >= 0 THEN n ELSE Len(s) + n
  IN  SubSeq(s, 1, IF stop < Len(s) THEN stop ELSE Len(s))

Map(s, F(_)) == [i \in 1..Len(s) |-> F(s[i])]

(***************************************************************************)
(* Exceptions: the class, str(e), and the message of the exception it was  *)
(* raised from (empty when there is none).                                 *)
(***************************************************************************)
NoExc == [type |-> "None", msg |-> <<>>, cause_msg |-> <<>>]

Exc(t, m) == [type |-> t, msg |-> m, cause_msg |-> <<>>]

\* openai_module.py:32-35
ConfigError ==
  Exc("ValueError", <<"OPENAI_API_KEY ne najden v peremennyh okruzhenija. ",
                      "Sozdajte fajl .env i dobav'te OPENAI_API_KEY=your_key">>)

\* agent.py:132-134
InsufficientText ==
  Exc("ValueError", <<"Ne udalos' izvlech' dostatochnoe kolichestvo teksta so stranicy">>)

(***************************************************************************)
(* tenacity.retry as the decorators configure it: stop_after_attempt(n),   *)
(* retry_if_exception_type(types), and no reraise argument, so that when   *)
(* the attempts run out the caller gets RetryError raised from the last    *)
(* attempt's exception; str(RetryError) names the last attempt's future    *)
(* (its state and the class it raised), not the exception's message.       *)
(***************************************************************************)
RetryError(last) ==
  [type      |-> "RetryError",
   msg       |-> <<"RetryError[<Future state=finished raised ", last.type, ">]">>,
   cause_msg |-> last.msg]

\* what the retry loop does with an attempt that raised e
RetryDecision(attempt_number, e, retry_types, stop_after) ==
  IF e.type \notin retry_types THEN "raise"
  ELSE IF attempt_number >= stop_after THEN "retry_error"
  ELSE "retry"

(***************************************************************************)
(* PageParser.extract_text.  A page is the sequence of its elements, each  *)
(* a tag with the text inside it.                                          *)
(***************************************************************************)
\* agent.py:78
\* a removal that forgets the style elements
RemovedTags_nostyle == {"script", "meta", "link"}

\* agent.py:78: soup(["script", "style", "meta", "link"])
RemovedTags == {"script", "style", "meta", "link"}

NonEmpty(s) == s # <<>>

\* soup.get_text(separator=" ", strip=True) once the removed tags are
\* decomposed: the stripped, non-empty strings joined by the separator
get_text(html) ==
  LET kept    == SelectSeq(html, LAMBDA el : el.tag \notin RemovedTags)
      strings == [i \in 1..Len(kept) |-> Strip(kept[i].text)]
  IN  Join(SelectSeq(strings, NonEmpty), <<" ">>)

\* agent.py:85-87
normalize_text(text) ==
  LET lines   == Map(SplitLines(text), Strip)
      phrases == Flatten([i \in 1..Len(lines) |-> SplitDoubleSpace(lines[i])])
      chunks  == Map(phrases, Strip)
  IN  Join(SelectSeq(chunks, NonEmpty), <<" ">>)

extract_text(html) == normalize_text(get_text(html))

\* a check that only rejects empty text
TextTooShort_emptyonly(text) == text = <<>>

\* agent.py:131: not text or len(text.strip()) < 50
TextTooShort(text) == text = <<>> \/ Len(Strip(text)) < MinTextLen

(***************************************************************************)
(* The pages, network outcomes and model responses the runs draw from.     *)
(***************************************************************************)
HalfLen == MinTextLen \div 2

TextPool == {Rep("a", HalfLen - 1), Rep("a", HalfLen), <<"a", " ", " ", "\n", "a">>}

\* html.parser closes meta and link where they open (they are void elements),
\* so in the parsed tree they hold attributes and no text
VoidTags == {"meta", "link"}

Elements ==
  {[tag |-> "p", text |-> x] : x \in TextPool}
    \cup {[tag |-> t, text |-> Rep("a", HalfLen)] : t \in {"script", "style"}}
    \cup {[tag |-> t, text |-> <<>>] : t \in VoidTags}

RECURSIVE SeqsUpTo(_, _)
\* the sequences over S of length 1..n
SeqsUpTo(S, n) ==
  IF n = 0 THEN {}
  ELSE LET shorter == SeqsUpTo(S, n - 1)
       IN  {<<x>> : x \in S} \cup shorter \cup {Append(q, x) : q \in shorter, x \in S}

Pages == SeqsUpTo(Elements, MaxElems)

(***************************************************************************)
(* OpenAIClient.generate_questions: the parsing of the response content    *)
(* (openai_module.py:83-102).                                              *)
(***************************************************************************)
Digits == {"0", "1", "2", "3", "4", "5", "6", "7", "8", "9"}

\* stands for the bullet character U+2022
Bullet == "BULLET"

\* openai_module.py:87: startswith(("#", "-", "*", "1.", "2."))
FilterPrefixes == {<<"#">>, <<"-">>, <<"*">>, <<"1", ".">>, <<"2", ".">>}

\* openai_module.py:94: the characters of lstrip's argument
MarkerChars == {"-", " ", "*", Bullet, "."} \cup Digits

\* openai_module.py:101
QuestionsPlaceholder == <<"Ne udalos' sgenerirovat' voprosy">>

\* the condition of the comprehension at openai_module.py:87
IsQuestionLine(q) ==
  /\ Strip(q) # <<>>
  /\ ~ \E p \in FilterPrefixes : StartsWith(Strip(q), p)

\* openai_module.py:84-88
question_lines(questions_text) ==
  Map(SelectSeq(SplitChar(questions_text, "\n"), IsQuestionLine), Strip)

\* openai_module.py:94
strip_markers(q) == LStripChars(q, MarkerChars)

\* openai_module.py:91-96
clean_questions(questions) == SelectSeq(Map(questions, strip_markers), NonEmpty)

\* a return that forgets to truncate
select_questions_nocut(cleaned_questions, num_questions) ==
  IF cleaned_questions # <<>> THEN cleaned_questions ELSE <<QuestionsPlaceholder>>

\* openai_module.py:100-102
select_questions(cleaned_questions, num_questions) ==
  IF cleaned_questions # <<>>
  THEN SliceTo(cleaned_questions, num_questions)
  ELSE <<QuestionsPlaceholder>>

parse_questions(content, num_questions) ==
  select_questions(clean_questions(question_lines(Strip(content))), num_questions)

(***************************************************************************)
(* OpenAIClient.classify_content: the parsing of the response content      *)
(* (openai_module.py:151-188).                                             *)
(***************************************************************************)
\* the label of openai_module.py:160, transliterated
TypeLabel == <<"T", "i", "p">>

\* the label of openai_module.py:162, transliterated
ExplanationLabel == <<"O", "b", "j", "a", "s", "n", "e", "n", "i", "e">>

\* openai_module.py:181
UnknownType == <<"Neizvestnyj tip">>

\* openai_module.py:183
NoExplanation == <<"Ne udalos' opredelit' objasnenie">>

\* openai_module.py:181: result_text[:100]
TypeFallbackLen == 100

\* line.startswith(label + ":") or line.startswith(label + " :")
HasLabel(line, label) ==
  StartsWith(line, label \o <<":">>) \/ StartsWith(line, label \o <<" ", ":">>)

\* line.split(c, 1)[1].strip(), for a line that holds c
AfterFirst(line, c) == Strip(Join(Tail(SplitChar(line, c)), <<c>>))

\* line.split(":")[-1].strip(): the text after the last colon
AfterColon_lastcolon(line) == Strip(Last(SplitChar(line, ":")))

AfterColon(line) == AfterFirst(line, ":")

RECURSIVE scan_labels(_, _)
\* the loop of openai_module.py:158-163 over the lines left, from state st
scan_labels(lines, st) ==
  IF lines = <<>> THEN st
  ELSE LET line == Strip(Head(lines))
           nxt  == IF HasLabel(line, TypeLabel)
                   THEN [st EXCEPT !.content_type = AfterColon(line)]
                   ELSE IF HasLabel(line, ExplanationLabel)
                   THEN [st EXCEPT !.explanation = AfterColon(line)]
                   ELSE st
       IN  scan_labels(Tail(lines), nxt)

\* openai_module.py:166-177
first_line_fallback(lines, st) ==
  IF st.content_type # <<>> /\ st.explanation # <<>> THEN st
  ELSE LET first_line == IF lines # <<>> THEN lines[1] ELSE <<>>
           ct == IF st.content_type # <<>> THEN st.content_type
                 ELSE IF Contains(first_line, <<":">>) THEN AfterColon(first_line)
                 ELSE Strip(first_line)
           ex == IF st.explanation = <<>> /\ Len(lines) > 1
                 THEN Strip(Join(Tail(lines), <<" ">>))
                 ELSE st.explanation
       IN  [content_type |-> ct, explanation |-> ex]

\* openai_module.py:180-183
placeholder_fallback(result_text, st) ==
  [content_type |-> IF st.content_type # <<>> THEN st.content_type
                    ELSE IF result_text # <<>> THEN SliceTo(result_text, TypeFallbackLen)
                    ELSE UnknownType,
   explanation  |-> IF st.explanation # <<>> THEN st.explanation ELSE NoExplanation]

parse_classification(content) ==
  LET result_text == Strip(content)
      lines       == SplitChar(result_text, "\n")
      scanned     == scan_labels(lines, [content_type |-> <<>>, explanation |-> <<>>])
      st          == placeholder_fallback(result_text, first_line_fallback(lines, scanned))
  IN  [type |-> st.content_type, explanation |-> st.explanation]

(***************************************************************************)
(* OpenAIClient.generate_ux_report: the parsing of the response content    *)
(* (openai_module.py:253-330).                                             *)
(***************************************************************************)
UpperCase == <<"A", "B", "C", "D", "E", "F", "G", "H", "I", "J", "K", "L", "M",
               "N", "O", "P", "Q", "R", "S", "T", "U", "V", "W", "X", "Y", "Z">>

LowerCase == <<"a", "b", "c", "d", "e", "f", "g", "h", "i", "j", "k", "l", "m",
               "n", "o", "p", "q", "r", "s", "t", "u", "v", "w", "x", "y", "z">>

\* str.lower()
Lower(s) ==
  [i \in 1..Len(s) |->
     IF \E k \in 1..Len(UpperCase) : UpperCase[k] = s[i]
     THEN LowerCase[CHOOSE k \in 1..Len(UpperCase) : UpperCase[k] = s[i]]
     ELSE s[i]]

\* the section words of openai_module.py:269, 272 and 275, transliterated
StrengthWords == {<<"d", "o", "s", "t", "o", "i", "n", "s", "t", "v", "a">>,
                  <<"d", "o", "s", "t", "o", "i", "n", "s", "t", "v", "o">>}

WeaknessWords == {<<"s", "l", "a", "b", "y", "e", " ", "m", "e", "s", "t", "a">>,
                  <<"s", "l", "a", "b", "o", "e", " ", "m", "e", "s", "t", "o">>}

RecommendationWords == {<<"r", "e", "k", "o", "m", "e", "n", "d", "a", "c", "i", "i">>,
                        <<"r", "e", "k", "o", "m", "e", "n", "d", "a", "c", "i", "j", "a">>}

\* the titles of openai_module.py:285, 293 and 306, transliterated
StrengthsTitle == <<"D", "o", "s", "t", "o", "i", "n", "s", "t", "v", "a">>

WeaknessesTitle == <<"S", "l", "a", "b", "y", "e">>

RecommendationsTitle == <<"R", "e", "k", "o", "m", "e", "n", "d", "a", "c", "i", "i">>

\* openai_module.py:324
NoRecommendations == <<"Ne udalos' sgenerirovat' rekomendacii">>

\* openai_module.py:327-328
NotGiven == <<"Ne ukazany">>

\* openai_module.py:327-328: strengths[:5], weaknesses[:5]
MaxListed == 5

\* openai_module.py:316: len(item) > 10
ShortItemLen == 10

HasWord(line, words) == \E w \in words : Contains(Lower(line), w)

\* openai_module.py:281: startswith("-") or startswith(bullet) or startswith("*")
IsBulleted(line) == line # <<>> /\ line[1] \in {"-", Bullet, "*"}

\* openai_module.py:282: line.lstrip("- <bullet>*").strip()
BulletItem(line) == Strip(LStripChars(line, {"-", " ", Bullet, "*"}))

\* openai_module.py:298: any(line.startswith(f"{i}.") for i in range(1, 10))
IsNumbered(line) == \E d \in Digits \ {"0"} : StartsWith(line, <<d, ".">>)

\* openai_module.py:299
NumberedItem(line) == IF Contains(line, <<".">>) THEN AfterFirst(line, ".") ELSE line

\* an append without the test of the item
AppendIf_always(list, item) == Append(list, item)

\* openai_module.py:283-284, 291-292, 300-301, 304-305: if item: append(item)
AppendIf(list, item) == IF item # <<>> THEN Append(list, item) ELSE list

\* openai_module.py:280-294: a line of the strengths or weaknesses section
add_listed(list, line, title) ==
  IF IsBulleted(line) THEN AppendIf(list, BulletItem(line))
  ELSE IF line # <<>> /\ ~ StartsWith(line, title) THEN Append(list, line)
  ELSE list

\* openai_module.py:296-307: a line of the recommendations section
add_recommendation(list, line) ==
  IF IsNumbered(line) THEN AppendIf(list, NumberedItem(line))
  ELSE IF IsBulleted(line) THEN AppendIf(list, BulletItem(line))
  ELSE IF line # <<>> /\ ~ StartsWith(line, RecommendationsTitle) THEN Append(list, line)
  ELSE list

UXStart ==
  [current_section |-> "None", strengths |-> <<>>, weaknesses |-> <<>>,
   recommendations |-> <<>>]

\* one iteration of the loop of openai_module.py:263-307
ux_scan_line(st, raw) ==
  LET line == Strip(raw)
  IN  IF line = <<>> THEN st
      ELSE IF HasWord(line, StrengthWords)
      THEN [st EXCEPT !.current_section = "strengths"]
      ELSE IF HasWord(line, WeaknessWords)
      THEN [st EXCEPT !.current_section = "weaknesses"]
      ELSE IF HasWord(line, RecommendationWords)
      THEN [st EXCEPT !.current_section = "recommendations"]
      ELSE IF st.current_section = "strengths"
      THEN [st EXCEPT !.strengths = add_listed(@, line, StrengthsTitle)]
      ELSE IF st.current_section = "weaknesses"
      THEN [st EXCEPT !.weaknesses = add_listed(@, line, WeaknessesTitle)]
      ELSE IF st.current_section = "recommendations"
      THEN [st EXCEPT !.recommendations = add_recommendation(@, line)]
      ELSE st

RECURSIVE ux_scan(_, _)
\* the loop of openai_module.py:263-307 over the lines left, from state st
ux_scan(lines, st) ==
  IF lines = <<>> THEN st ELSE ux_scan(Tail(lines), ux_scan_line(st, Head(lines)))

RECURSIVE numbered_items(_)
\* openai_module.py:312-317: the numbered lines' items longer than 10
numbered_items(lines) ==
  IF lines = <<>> THEN <<>>
  ELSE LET line == Strip(Head(lines))
           item == NumberedItem(line)
       IN  (IF IsNumbered(line) /\ item # <<>> /\ Len(item) > ShortItemLen
            THEN <<item>> ELSE <<>>) \o numbered_items(Tail(lines))

\* openai_module.py:310-317
ux_fallback(lines, st) ==
  IF st.strengths = <<>> /\ st.weaknesses = <<>> /\ st.recommendations = <<>>
  THEN [st EXCEPT !.recommendations = numbered_items(lines)]
  ELSE st

\* a cap that keeps one recommendation too many
cap_recommendations_offbyone(recommendations, num_recommendations) ==
  LET capped == SliceTo(recommendations, num_recommendations + 1)
  IN  IF capped = <<>> THEN <<NoRecommendations>> ELSE capped

\* openai_module.py:320-324
cap_recommendations(recommendations, num_recommendations) ==
  LET capped == SliceTo(recommendations, num_recommendations)
  IN  IF capped = <<>> THEN <<NoRecommendations>> ELSE capped

\* openai_module.py:327-328
cap_listed(list) == IF list # <<>> THEN SliceTo(list, MaxListed) ELSE <<NotGiven>>

parse_ux_report(content, num_recommendations) ==
  LET lines == SplitChar(Strip(content), "\n")
      st    == ux_fallback(lines, ux_scan(lines, UXStart))
  IN  [strengths       |-> cap_listed(st.strengths),
       weaknesses      |-> cap_listed(st.weaknesses),
       recommendations |-> cap_recommendations(st.recommendations, num_recommendations)]

(***************************************************************************)
(* The command-line run: main, the agents, fetch_html and the three        *)
(* OpenAIClient operations.                                                *)
(***************************************************************************)
VARIABLES
  argv,         \* sys.argv
  env,          \* the environment after load_dotenv(): the variables set
  pc,           \* where main is: main, try, fetch, extract, llm, print, except, exited
  task,         \* main's task
  exit_code,    \* the process's exit status, -1 while it runs
  stdout,       \* what main printed to standard output
  stderr,       \* the message main printed to the error stream
  clients,      \* how many OpenAIClient objects were constructed
  fetch_log,    \* the outcomes of the HTTP attempts of fetch_html, in order
  html,         \* the agent's html
  extracted,    \* whether extract_text has run
  text,         \* the agent's text
  stage,        \* which of the task's LLM operations is running (1-based)
  attempt,      \* attempts made so far of the running LLM operation
  calls,        \* the completion calls made, in order: operation and text sent
  results,      \* what the LLM operations returned
  exc           \* the exception propagating to main's handler

VARIABLES
  gq_state,     \* generate_questions' parsing: idle, filter, clean, select, returned
  gq_content,   \* response.choices[0].message.content
  gq_count,     \* num_questions
  gq_questions, \* questions
  gq_cleaned,   \* cleaned_questions
  gq_result,    \* the list returned
  ux_state,     \* generate_ux_report's parsing: idle, scan, fallback, cap, returned
  ux_content,   \* response.choices[0].message.content
  ux_count,     \* num_recommendations
  ux_lines,     \* lines
  ux_next,      \* index in lines of the line the loop takes next
  ux_st,        \* current_section, strengths, weaknesses, recommendations
  ux_result     \* the report returned

VARIABLES
  cl_state,     \* classify_content's parsing: idle, scan, fallback, final, returned
  cl_content,   \* response.choices[0].message.content
  cl_lines,     \* lines
  cl_st,        \* content_type and explanation
  cl_result     \* the record returned

cl_vars == <<cl_state, cl_content, cl_lines, cl_st, cl_result>>

VARIABLES
  oc_state,     \* OpenAIClient.__init__: idle, init, constructed, raised
  oc_arg,       \* the model argument: None or a str
  oc_env,       \* os.environ
  oc_model,     \* self.model
  oc_exc        \* the exception __init__ raised

oc_vars == <<oc_state, oc_arg, oc_env, oc_model, oc_exc>>

gq_vars == <<gq_state, gq_content, gq_count, gq_questions, gq_cleaned, gq_result>>

ux_vars == <<ux_state, ux_content, ux_count, ux_lines, ux_next, ux_st, ux_result>>

parse_vars == <<gq_vars, ux_vars, cl_vars, oc_vars>>

proc_vars ==
  <<argv, env, pc, task, exit_code, stdout, stderr, clients, fetch_log, html,
    extracted, text, stage, attempt, calls, results, exc>>

Url == <<"u">>

Tasks == {"questions", "classify", "ux", "all"}

\* a decorator that stops one attempt later
FetchStopAfterAttempt_late == 3 + 1

\* a decorator that stops one attempt earlier
FetchStopAfterAttempt_early == 3 - 1

\* agent.py:34
FetchStopAfterAttempt == 3

\* agent.py:36
FetchRetryTypes == {"RequestException"}

\* decorators that stop one attempt later
LLMStopAfterAttempt_late == 3 + 1

\* openai_module.py:41, 108, 194
LLMStopAfterAttempt == 3

\* openai_module.py:43, 110, 196: every exception the operations raise is an
\* Exception (they raise only the wrapped one)
LLMRetryTypes == {"Exception"}

\* run_all classifying before it generates questions
TaskOps_swapped(t) ==
  CASE t = "questions" -> <<"generate_questions">>
    [] t = "classify"  -> <<"classify_content">>
    [] t = "ux"        -> <<"generate_ux_report">>
    [] t = "all"       -> <<"classify_content", "generate_questions", "generate_ux_report">>

\* the LLM operations each task's agent runs, in order (agent.py:140, 197,
\* 258 and 319-327)
TaskOps(t) ==
  CASE t = "questions" -> <<"generate_questions">>
    [] t = "classify"  -> <<"classify_content">>
    [] t = "ux"        -> <<"generate_ux_report">>
    [] t = "all"       -> <<"generate_questions", "classify_content", "generate_ux_report">>

\* OpenAIClient objects an agent's constructor makes (agent.py:103, 161,
\* 218 and 281-283)
AgentClients(t) == IF t = "all" THEN 3 ELSE 1

\* a check that takes an empty key for a key
ApiKeyMissing_unsetonly(e) == ~ \E b \in e : b.name = "OPENAI_API_KEY"

\* openai_module.py:30-31: not os.getenv("OPENAI_API_KEY")
ApiKeyMissing(e) ==
  ~ \E b \in e : b.name = "OPENAI_API_KEY" /\ b.value # <<>>

\* openai_module.py:105, 191, 333: the prefix of the wrapped message
WrapPrefix(op) ==
  CASE op = "generate_questions" -> "Oshibka pri generacii voprosov cherez OpenAI: "
    [] op = "classify_content"   -> "Oshibka pri klassifikacii kontenta cherez OpenAI: "
    [] op = "generate_ux_report" -> "Oshibka pri generacii UX-otchjota cherez OpenAI: "

\* raise Exception(f"<prefix>{str(e)}") inside `except Exception as e`
Wrapped(op, e) ==
  [type |-> "Exception", msg |-> <<WrapPrefix(op)>> \o e.msg, cause_msg |-> e.msg]

\* None.strip() at openai_module.py:83, 151, 253
NoneContentError == Exc("AttributeError", <<"'NoneType' object has no attribute 'strip'">>)

Environments ==
  { {} } \cup {{[name |-> "OPENAI_API_KEY", value |-> v]} : v \in {<<>>, <<"s", "k">>}}

RequestErrors ==
  {Exc("RequestException", <<"timed out">>), Exc("RequestException", <<"404 Client Error">>)}

OtherFetchErrors == {Exc("OtherError", <<"unexpected failure">>)}

FetchOutcomes ==
  {[kind |-> "ok", body |-> b, exc |-> NoExc] : b \in Pages}
    \cup {[kind |-> "raise", body |-> <<>>, exc |-> e] :
            e \in RequestErrors \cup OtherFetchErrors}

ApiErrors == {Exc("APIError", <<"rate limit reached">>)}

QuestionContents == {<<"3", ".", " ", "a", "\n", "b">>}

ClassifyContents ==
  {<<"T", "i", "p", ":", " ", "b", "\n", "O", "b", "j", "a", "s", "n", "e", "n", "i", "e", ":", " ", "c">>}

UXContents ==
  {<<"D", "o", "s", "t", "o", "i", "n", "s", "t", "v", "a", ":", "\n", "-", " ", "a", "\n", "S", "l", "a", "b", "y", "e", " ", "m", "e", "s", "t", "a", ":", "\n", "-", " ", "b", "\n", "R", "e", "k", "o", "m", "e", "n", "d", "a", "c", "i", "i", ":", "\n", "1", ".", " ", "c">>}

Contents(op) ==
  CASE op = "generate_questions" -> QuestionContents
    [] op = "classify_content"   -> ClassifyContents
    [] op = "generate_ux_report" -> UXContents

\* what one completion call can do: return content, return no content, raise
LLMOutcomes(op) ==
  {[kind |-> "ok", has_content |-> TRUE, content |-> c, exc |-> NoExc] : c \in Contents(op)}
    \cup {[kind |-> "ok", has_content |-> FALSE, content |-> <<>>, exc |-> NoExc]}
    \cup {[kind |-> "raise", has_content |-> FALSE, content |-> <<>>, exc |-> e] :
            e \in ApiErrors}

NoResults ==
  [questions    |-> <<>>,
   content_type |-> [type |-> <<>>, explanation |-> <<>>],
   ux_report    |-> [strengths |-> <<>>, weaknesses |-> <<>>, recommendations |-> <<>>]]

GQIdle ==
  /\ gq_state = "idle"
  /\ gq_content = <<>>
  /\ gq_count = 0
  /\ gq_questions = <<>>
  /\ gq_cleaned = <<>>
  /\ gq_result = <<>>

UXIdle ==
  /\ ux_state = "idle"
  /\ ux_content = <<>>
  /\ ux_count = 0
  /\ ux_lines = <<>>
  /\ ux_next = 1
  /\ ux_st = UXStart
  /\ ux_result = NoResults.ux_report

CLIdle ==
  /\ cl_state = "idle"
  /\ cl_content = <<>>
  /\ cl_lines = <<>>
  /\ cl_st = [content_type |-> <<>>, explanation |-> <<>>]
  /\ cl_result = NoResults.content_type

\* Python's None and str values of an Optional[str]
None == [none |-> TRUE, value |-> <<>>]

Str(v) == [none |-> FALSE, value |-> v]

OCIdle ==
  /\ oc_state = "idle"
  /\ oc_arg = None
  /\ oc_env = {}
  /\ oc_model = <<>>
  /\ oc_exc = NoExc

ProcInit ==
  /\ argv \in {<<"agent.py">>, <<"agent.py", Url>>}
                \cup {<<"agent.py", Url, t>> : t \in Tasks \cup {"bogus"}}
  /\ env \in Environments
  /\ pc = "main"
  /\ task = ""
  /\ exit_code = -1
  /\ stdout = ""
  /\ stderr = <<>>
  /\ clients = 0
  /\ fetch_log = <<>>
  /\ html = <<>>
  /\ extracted = FALSE
  /\ text = <<>>
  /\ stage = 0
  /\ attempt = 0
  /\ calls = <<>>
  /\ results = NoResults
  /\ exc = NoExc

\* agent.py:344-360: the argument check and the task default
main_args ==
  /\ pc = "main"
  /\ IF Len(argv) < 2
     THEN /\ stdout' = "usage"
          /\ exit_code' = 1
          /\ pc' = "exited"
          /\ task' = task
     ELSE /\ task' = IF Len(argv) > 2 THEN argv[3] ELSE "questions"
          /\ pc' = "try"
          /\ UNCHANGED <<stdout, exit_code>>
  /\ UNCHANGED <<argv, env, stderr, clients, fetch_log, html, extracted, text,
                 stage, attempt, calls, results, exc>>
  /\ UNCHANGED parse_vars

\* agent.py:362-364, 374-375, 385-386, 407-408, 438-441: the task's branch
\* and its agent's construction (OpenAIClient.__init__, openai_module.py:30-36)
main_try ==
  /\ pc = "try"
  /\ IF task \in Tasks
     THEN IF ApiKeyMissing(env)
          THEN /\ exc' = ConfigError
               /\ pc' = "except"
               /\ UNCHANGED <<clients, stderr, exit_code>>
          ELSE /\ clients' = AgentClients(task)
               /\ pc' = "fetch"
               /\ UNCHANGED <<exc, stderr, exit_code>>
     ELSE /\ stderr' = <<"Neizvestnaja zadacha: ", task>>
          /\ exit_code' = 1
          /\ pc' = "exited"
          /\ UNCHANGED <<clients, exc>>
  /\ UNCHANGED <<argv, env, task, stdout, fetch_log, html, extracted, text,
                 stage, attempt, calls, results>>
  /\ UNCHANGED parse_vars

\* agent.py:32-62: one attempt of fetch_html under its retry decorator, with
\* outcome o of requests.get and raise_for_status
fetch_html(o) ==
  /\ pc = "fetch"
  /\ fetch_log' = Append(fetch_log, o)
  /\ IF o.kind = "ok"
     THEN /\ html' = o.body
          /\ pc' = "extract"
          /\ exc' = exc
     ELSE LET d == RetryDecision(Len(fetch_log) + 1, o.exc, FetchRetryTypes,
                                 FetchStopAfterAttempt)
          IN  /\ html' = html
              /\ pc' = IF d = "retry" THEN "fetch" ELSE "except"
              /\ exc' = CASE d = "retry"       -> exc
                          [] d = "raise"       -> o.exc
                          [] d = "retry_error" -> RetryError(o.exc)
  /\ UNCHANGED <<argv, env, task, exit_code, stdout, stderr, clients, extracted,
                 text, stage, attempt, calls, results>>
  /\ UNCHANGED parse_vars

\* agent.py:129-134 (186-191, 247-252, 308-313): extraction and length check
extract_and_check ==
  /\ pc = "extract"
  /\ text' = extract_text(html)
  /\ extracted' = TRUE
  /\ IF TextTooShort(text')
     THEN /\ exc' = InsufficientText
          /\ pc' = "except"
          /\ UNCHANGED <<stage, attempt>>
     ELSE /\ pc' = "llm"
          /\ stage' = 1
          /\ attempt' = 0
          /\ exc' = exc
  /\ UNCHANGED <<argv, env, task, exit_code, stdout, stderr, clients, fetch_log,
                 html, calls, results>>
  /\ UNCHANGED parse_vars

\* the exception an attempt with outcome o raises out of the try block
AttemptError(op, o) ==
  Wrapped(op, IF o.kind = "raise" THEN o.exc ELSE NoneContentError)

\* one attempt of an OpenAIClient operation under its retry decorator, with
\* outcome o of the completion call; new_results is results with what parsing
\* the content gives
llm_attempt(op, o, new_results) ==
  /\ pc = "llm"
  /\ TaskOps(task)[stage] = op
  /\ calls' = Append(calls, [op |-> op, text |-> text])
  /\ IF o.kind = "ok" /\ o.has_content
     THEN /\ results' = new_results
          /\ attempt' = 0
          /\ exc' = exc
          /\ IF stage < Len(TaskOps(task))
             THEN stage' = stage + 1 /\ pc' = "llm"
             ELSE stage' = stage /\ pc' = "print"
     ELSE LET e == AttemptError(op, o)
              d == RetryDecision(attempt + 1, e, LLMRetryTypes, LLMStopAfterAttempt)
          IN  /\ results' = results
              /\ attempt' = attempt + 1
              /\ stage' = stage
              /\ pc' = IF d = "retry" THEN "llm" ELSE "except"
              /\ exc' = CASE d = "retry"       -> exc
                          [] d = "raise"       -> e
                          [] d = "retry_error" -> RetryError(e)
  /\ UNCHANGED <<argv, env, task, exit_code, stdout, stderr, clients, fetch_log,
                 html, extracted, text>>
  /\ UNCHANGED parse_vars

\* openai_module.py:40-105
generate_questions(o) ==
  llm_attempt("generate_questions", o,
              [results EXCEPT !.questions = parse_questions(o.content, DefaultCount)])

\* openai_module.py:107-191
classify_content(o) ==
  llm_attempt("classify_content", o,
              [results EXCEPT !.content_type = parse_classification(o.content)])

\* openai_module.py:193-333
generate_ux_report(o) ==
  llm_attempt("generate_ux_report", o,
              [results EXCEPT !.ux_report = parse_ux_report(o.content, DefaultCount)])

\* agent.py:367-436: printing the result; print itself may raise (an
\* encoding error of the output stream), which the handler catches
main_print(ok) ==
  /\ pc = "print"
  /\ IF ok
     THEN /\ stdout' = "report"
          /\ exit_code' = 0
          /\ pc' = "exited"
          /\ exc' = exc
     ELSE /\ exc' = Exc("UnicodeEncodeError", <<"codec can't encode character">>)
          /\ pc' = "except"
          /\ UNCHANGED <<stdout, exit_code>>
  /\ UNCHANGED <<argv, env, task, stderr, clients, fetch_log, html, extracted,
                 text, stage, attempt, calls, results>>
  /\ UNCHANGED parse_vars

\* a handler that prints the error and returns normally
main_except_noexit ==
  /\ pc = "except"
  /\ stderr' = <<"Oshibka: ">> \o exc.msg
  /\ exit_code' = 0
  /\ pc' = "exited"
  /\ UNCHANGED <<argv, env, task, stdout, clients, fetch_log, html, extracted,
                 text, stage, attempt, calls, results, exc>>
  /\ UNCHANGED parse_vars

\* agent.py:443-445
main_except ==
  /\ pc = "except"
  /\ stderr' = <<"Oshibka: ">> \o exc.msg
  /\ exit_code' = 1
  /\ pc' = "exited"
  /\ UNCHANGED <<argv, env, task, stdout, clients, fetch_log, html, extracted,
                 text, stage, attempt, calls, results, exc>>
  /\ UNCHANGED parse_vars

ProcNext ==
  \/ main_args
  \/ main_try
  \/ \E o \in FetchOutcomes : fetch_html(o)
  \/ extract_and_check
  \/ \E o \in LLMOutcomes("generate_questions") : generate_questions(o)
  \/ \E o \in LLMOutcomes("classify_content") : classify_content(o)
  \/ \E o \in LLMOutcomes("generate_ux_report") : generate_ux_report(o)
  \/ \E ok \in BOOLEAN : main_print(ok)
  \/ main_except

(***************************************************************************)
(* generate_questions' parsing on its own: any short response content and  *)
(* any requested count, taken through the three phases of                  *)
(* openai_module.py:83-102.                                                *)
(***************************************************************************)
\* the library imported, main not running
ProcIdle ==
  /\ argv = <<>>
  /\ env = {}
  /\ pc = "idle"
  /\ task = ""
  /\ exit_code = -1
  /\ stdout = ""
  /\ stderr = <<>>
  /\ clients = 0
  /\ fetch_log = <<>>
  /\ html = <<>>
  /\ extracted = FALSE
  /\ text = <<>>
  /\ stage = 0
  /\ attempt = 0
  /\ calls = <<>>
  /\ results = NoResults
  /\ exc = NoExc

QuestionChars == {"-", "1", "3", ".", " ", "a", "\n"}

QuestionInputs == {<<>>} \cup SeqsUpTo(QuestionChars, MaxContentLen)

GQInit ==
  /\ gq_state = "filter"
  /\ gq_content \in QuestionInputs
  /\ gq_count \in 0..MaxCount
  /\ gq_questions = <<>>
  /\ gq_cleaned = <<>>
  /\ gq_result = <<>>

\* openai_module.py:83-88
gq_filter ==
  /\ gq_state = "filter"
  /\ gq_questions' = question_lines(Strip(gq_content))
  /\ gq_state' = "clean"
  /\ UNCHANGED <<gq_content, gq_count, gq_cleaned, gq_result>>
  /\ UNCHANGED <<proc_vars, ux_vars, cl_vars, oc_vars>>

\* openai_module.py:91-96
gq_clean ==
  /\ gq_state = "clean"
  /\ gq_cleaned' = clean_questions(gq_questions)
  /\ gq_state' = "select"
  /\ UNCHANGED <<gq_content, gq_count, gq_questions, gq_result>>
  /\ UNCHANGED <<proc_vars, ux_vars, cl_vars, oc_vars>>

\* openai_module.py:100-102
gq_return ==
  /\ gq_state = "select"
  /\ gq_result' = select_questions(gq_cleaned, gq_count)
  /\ gq_state' = "returned"
  /\ UNCHANGED <<gq_content, gq_count, gq_questions, gq_cleaned>>
  /\ UNCHANGED <<proc_vars, ux_vars, cl_vars, oc_vars>>

GQNext ==
  \/ gq_filter
  \/ gq_clean
  \/ gq_return

(***************************************************************************)
(* generate_ux_report's parsing on its own (openai_module.py:253-330), one *)
(* line of the response per step.  A response is one or two blocks, each   *)
(* an optional section title followed by bulleted or numbered items.       *)
(***************************************************************************)
ItemChars == <<"a", "b", "c", "d", "e", "f", "g", "h", "i">>

ItemDigits == <<"1", "2", "3", "4", "5", "6", "7", "8", "9">>

BlockTitles ==
  [S |-> <<"D", "o", "s", "t", "o", "i", "n", "s", "t", "v", "a", ":">>,
   W |-> <<"S", "l", "a", "b", "y", "e", " ", "m", "e", "s", "t", "a", ":">>,
   R |-> <<"R", "e", "k", "o", "m", "e", "n", "d", "a", "c", "i", "i", " ", "p", "o", " ", "u", "l", "u", "c", "h", "s", "h", "e", "n", "i", "j", "u", " ", "U", "X", ":">>]

BlockSizes == 0..MaxBlockItems

\* item k of a block: "- x", or "k. xxxxxxxxxxx" (longer than ShortItemLen)
BlockItem(numbered, k) ==
  IF numbered
  THEN <<ItemDigits[k], ".", " ">> \o Rep(ItemChars[k], ShortItemLen + 1)
  ELSE <<"-", " ", ItemChars[k]>>

BlockLines(title, numbered, n) ==
  (IF title = "none" THEN <<>> ELSE <<BlockTitles[title]>>)
    \o [k \in 1..n |-> BlockItem(numbered, k)]

Blocks ==
  {BlockLines(t, b, n) : t \in {"none", "S", "W", "R"}, b \in BOOLEAN, n \in BlockSizes}

UXInputs ==
  {Join(b, <<"\n">>) : b \in Blocks} \cup {Join(b1 \o b2, <<"\n">>) : b1, b2 \in Blocks}

UXInit ==
  /\ ux_state = "split"
  /\ ux_content \in UXInputs
  /\ ux_count \in 0..MaxCount
  /\ ux_lines = <<>>
  /\ ux_next = 1
  /\ ux_st = UXStart
  /\ ux_result = NoResults.ux_report

\* openai_module.py:253-261
ux_split ==
  /\ ux_state = "split"
  /\ ux_lines' = SplitChar(Strip(ux_content), "\n")
  /\ ux_next' = 1
  /\ ux_st' = UXStart
  /\ ux_state' = "scan"
  /\ UNCHANGED <<ux_content, ux_count, ux_result>>
  /\ UNCHANGED <<proc_vars, gq_vars, cl_vars, oc_vars>>

\* openai_module.py:263-307: one iteration of the loop
ux_scan_step ==
  /\ ux_state = "scan"
  /\ ux_next <= Len(ux_lines)
  /\ ux_st' = ux_scan_line(ux_st, ux_lines[ux_next])
  /\ ux_next' = ux_next + 1
  /\ UNCHANGED <<ux_state, ux_content, ux_count, ux_lines, ux_result>>
  /\ UNCHANGED <<proc_vars, gq_vars, cl_vars, oc_vars>>

\* openai_module.py:310-317: after the loop
ux_after_scan ==
  /\ ux_state = "scan"
  /\ ux_next > Len(ux_lines)
  /\ ux_st' = ux_fallback(ux_lines, ux_st)
  /\ ux_state' = "cap"
  /\ UNCHANGED <<ux_content, ux_count, ux_lines, ux_next, ux_result>>
  /\ UNCHANGED <<proc_vars, gq_vars, cl_vars, oc_vars>>

\* openai_module.py:320-330
ux_return ==
  /\ ux_state = "cap"
  /\ ux_result' = [strengths       |-> cap_listed(ux_st.strengths),
                   weaknesses      |-> cap_listed(ux_st.weaknesses),
                   recommendations |-> cap_recommendations(ux_st.recommendations,
                                                           ux_count)]
  /\ ux_state' = "returned"
  /\ UNCHANGED <<ux_content, ux_count, ux_lines, ux_next, ux_st>>
  /\ UNCHANGED <<proc_vars, gq_vars, cl_vars, oc_vars>>

UXNext ==
  \/ ux_split
  \/ ux_scan_step
  \/ ux_after_scan
  \/ ux_return

(***************************************************************************)
(* generate_ux_report's parsing over responses of arbitrary lines: section *)
(* lines in several spellings, items with and without markers, lines made  *)
(* of a marker only, and blank lines, in any order.                        *)
(***************************************************************************)
SectionLines ==
  {BlockTitles.S,
   <<"D", "O", "S", "T", "O", "I", "N", "S", "T", "V", "O">>,
   <<"s", "l", "a", "b", "y", "e", " ", "m", "e", "s", "t", "a">>,
   <<"1", ".", " ", "R", "e", "k", "o", "m", "e", "n", "d", "a", "c", "i", "j", "a">>}

ItemLines ==
  {<<"-", " ", "a">>, <<"1", ".", " ", "b">>, <<"c">>, <<"-">>, <<" ">>}

ScanInputs ==
  {Join(ls, <<"\n">>) : ls \in SeqsUpTo(SectionLines \cup ItemLines, MaxScanLines)}

UXScanInit ==
  /\ ux_state = "split"
  /\ ux_content \in ScanInputs
  /\ ux_count = DefaultCount
  /\ ux_lines = <<>>
  /\ ux_next = 1
  /\ ux_st = UXStart
  /\ ux_result = NoResults.ux_report

(***************************************************************************)
(* classify_content's parsing on its own (openai_module.py:151-188).  A    *)
(* response is a few lines, each a labelled line ("Tip: value",            *)
(* "Objasnenie : value", ...) or a line without a label.                   *)
(***************************************************************************)
LabelValues == {<<>>, <<"b">>, <<"b", ":", "c">>}

LabelSeparators == {<<":">>, <<" ", ":">>}

\* a line made of a label, the colon and the value
LabelledLine(label, sep, value) == label \o sep \o <<" ">> \o value

\* every value after "label:", one value after "label :"
LabelledLines(label) ==
  {LabelledLine(label, <<":">>, v) : v \in LabelValues}
    \cup {LabelledLine(label, <<" ", ":">>, <<"b">>)}

\* type lines, explanation lines, and lines without a label
ClassifyLines ==
  LabelledLines(TypeLabel) \cup LabelledLines(ExplanationLabel)
    \cup {<<"x">>, <<"x", ":", "y">>, <<>>}

ClassifyInputs == {Join(ls, <<"\n">>) : ls \in SeqsUpTo(ClassifyLines, MaxClassifyLines)}

CLInit ==
  /\ cl_state = "scan"
  /\ cl_content \in ClassifyInputs
  /\ cl_lines = <<>>
  /\ cl_st = [content_type |-> <<>>, explanation |-> <<>>]
  /\ cl_result = NoResults.content_type

\* openai_module.py:151-163
cl_scan ==
  /\ cl_state = "scan"
  /\ cl_lines' = SplitChar(Strip(cl_content), "\n")
  /\ cl_st' = scan_labels(cl_lines', [content_type |-> <<>>, explanation |-> <<>>])
  /\ cl_state' = "fallback"
  /\ UNCHANGED <<cl_content, cl_result>>
  /\ UNCHANGED <<proc_vars, gq_vars, ux_vars, oc_vars>>

\* openai_module.py:166-177
cl_first_line ==
  /\ cl_state = "fallback"
  /\ cl_st' = first_line_fallback(cl_lines, cl_st)
  /\ cl_state' = "final"
  /\ UNCHANGED <<cl_content, cl_lines, cl_result>>
  /\ UNCHANGED <<proc_vars, gq_vars, ux_vars, oc_vars>>

\* openai_module.py:180-188
cl_return ==
  /\ cl_state = "final"
  /\ cl_result' = LET st == placeholder_fallback(Strip(cl_content), cl_st)
                  IN  [type |-> st.content_type, explanation |-> st.explanation]
  /\ cl_state' = "returned"
  /\ UNCHANGED <<cl_content, cl_lines, cl_st>>
  /\ UNCHANGED <<proc_vars, gq_vars, ux_vars, oc_vars>>

CLNext ==
  \/ cl_scan
  \/ cl_first_line
  \/ cl_return

(***************************************************************************)
(* OpenAIClient.__init__ on its own (openai_module.py:22-38), for every    *)
(* model argument and every setting of OPENAI_API_KEY and OPENAI_MODEL.    *)
(***************************************************************************)
\* openai_module.py:38: the default of os.getenv("OPENAI_MODEL", ...)
DefaultModel == <<"g", "p", "t", "-", "4", "o">>

\* the empty name ("OPENAI_MODEL=" in .env, model="") and the names of up to
\* MaxNameLen characters
ModelNames == {<<>>} \cup SeqsUpTo({"g", "4"}, MaxNameLen)

IsSet(e, name) == \E b \in e : b.name = name

\* os.getenv(name, default)
Getenv(e, name, default) ==
  IF IsSet(e, name) THEN (CHOOSE b \in e : b.name = name).value ELSE default

\* bool(x) of an Optional[str]
Truthy(x) == ~ x.none /\ x.value # <<>>

\* openai_module.py:38: model or os.getenv("OPENAI_MODEL", "gpt-4o")
resolve_model(model, e) ==
  IF Truthy(model) THEN model.value ELSE Getenv(e, "OPENAI_MODEL", DefaultModel)

ClientEnvironments ==
  {keys \cup names :
     keys \in Environments,
     names \in {{}} \cup {{[name |-> "OPENAI_MODEL", value |-> n]} : n \in ModelNames}}

OCInit ==
  /\ oc_state = "init"
  /\ oc_arg \in {None} \cup {Str(n) : n \in ModelNames}
  /\ oc_env \in ClientEnvironments
  /\ oc_model = <<>>
  /\ oc_exc = NoExc

\* openai_module.py:22-38
OpenAIClient_init ==
  /\ oc_state = "init"
  /\ IF ApiKeyMissing(oc_env)
     THEN /\ oc_exc' = ConfigError
          /\ oc_state' = "raised"
          /\ UNCHANGED oc_model
     ELSE /\ oc_model' = resolve_model(oc_arg, oc_env)
          /\ oc_state' = "constructed"
          /\ UNCHANGED oc_exc
  /\ UNCHANGED <<oc_arg, oc_env>>
  /\ UNCHANGED <<proc_vars, gq_vars, ux_vars, cl_vars>>

Init == ProcInit /\ GQIdle /\ UXIdle /\ CLIdle /\ OCIdle

Next == ProcNext

vars == <<proc_vars, parse_vars>>

Spec == Init /\ [][Next]_vars

\* The run is one synchronous thread: a step of main that is reached is
\* taken.  requests.get has timeout=10, the completion call has the client's
\* timeout, and the waits between attempts are at most 10 seconds, so each
\* step ends.  The condition on extract_and_check is WF_vars(extract_and_check)
\* with ENABLED <<extract_and_check>>_vars written as the state predicate it
\* equals, pc = "extract".
Fairness ==
  /\ WF_vars(main_args)
  /\ WF_vars(main_try)
  /\ WF_vars(\E o \in FetchOutcomes : fetch_html(o))
  /\ []<>(pc # "extract") \/ []<><<extract_and_check>>_vars
  /\ WF_vars(\E o \in LLMOutcomes("generate_questions") : generate_questions(o))
  /\ WF_vars(\E o \in LLMOutcomes("classify_content") : classify_content(o))
  /\ WF_vars(\E o \in LLMOutcomes("generate_ux_report") : generate_ux_report(o))
  /\ WF_vars(\E ok \in BOOLEAN : main_print(ok))
  /\ WF_vars(main_except)

FairSpec == Spec /\ Fairness

InitQuestions == ProcIdle /\ GQInit /\ UXIdle /\ CLIdle /\ OCIdle

SpecQuestions == InitQuestions /\ [][GQNext]_vars

InitUX == ProcIdle /\ GQIdle /\ UXInit /\ CLIdle /\ OCIdle

SpecUX == InitUX /\ [][UXNext]_vars

InitUXScan == ProcIdle /\ GQIdle /\ UXScanInit /\ CLIdle /\ OCIdle

SpecUXScan == InitUXScan /\ [][UXNext]_vars

InitClassify == ProcIdle /\ GQIdle /\ UXIdle /\ CLInit /\ OCIdle

SpecClassify == InitClassify /\ [][CLNext]_vars

InitClient == ProcIdle /\ GQIdle /\ UXIdle /\ CLIdle /\ OCInit

SpecClient == InitClient /\ [][OpenAIClient_init]_vars

(***************************************************************************)
(* Properties of the command-line run.                                     *)
(***************************************************************************)
IsTransportFailure(o) == o.kind = "raise" /\ o.exc.type = "RequestException"

Ended == pc \in {"except", "exited"}

\* an LLM operation used up its attempts: the counter is reset on success
LLMFailed == Ended /\ attempt > 0

\* C1: fetch_html makes at most 3 HTTP attempts per call, each attempt after
\* the first follows an attempt that failed with a transport/status error,
\* and a failure of any other kind ends the call at once.
C1_FetchAttempts ==
  /\ Len(fetch_log) <= 3
  /\ \A i \in 2..Len(fetch_log) : IsTransportFailure(fetch_log[i - 1])
  /\ \A i \in 1..Len(fetch_log) :
       (fetch_log[i].kind = "raise" /\ ~ IsTransportFailure(fetch_log[i]))
         => (i = Len(fetch_log) /\ Ended /\ exc = fetch_log[i].exc)

C1_Witness ==
  /\ Len(fetch_log) = 3
  /\ \A i \in 1..3 : IsTransportFailure(fetch_log[i])
  /\ pc = "except"

\* C2: when an LLM operation fails on every attempt, it was attempted at
\* most 3 times and the error reaching the caller is the wrapped error: an
\* Exception whose message is the operation's prefix followed by the
\* original cause's message.
C2_WrappedErrorReachesCaller ==
  LLMFailed =>
    /\ attempt <= 3
    /\ exc.type = "Exception"
    /\ \E cause \in ApiErrors \cup {NoneContentError} :
         exc.msg = <<WrapPrefix(TaskOps(task)[stage])>> \o cause.msg

\* C3: extracted text that is empty or shorter than 50 after trimming ends
\* the run with the validation error, with no completion call and with
\* the page fetched only the once; a completion call is made only after a
\* successful fetch and a passed length check.
C3_ShortTextIsFatal ==
  /\ (extracted /\ (text = <<>> \/ Len(Strip(text)) < 50)) =>
       /\ Ended
       /\ exc = InsufficientText
       /\ calls = <<>>
       /\ Cardinality({i \in 1..Len(fetch_log) : fetch_log[i].kind = "ok"}) = 1
       /\ Last(fetch_log).kind = "ok"
       /\ exit_code # 0
  /\ calls # <<>> =>
       /\ extracted
       /\ Last(fetch_log).kind = "ok"
       /\ text # <<>> /\ Len(Strip(text)) >= 50

C3_Witness ==
  /\ extracted
  /\ Len(Strip(text)) < 50
  /\ text # <<>>
  /\ pc = "exited"
  /\ task = "all"

AllOps == <<"generate_questions", "classify_content", "generate_ux_report">>

OpIndex(op) == CHOOSE i \in 1..3 : AllOps[i] = op

Succeeded(op) ==
  CASE op = "generate_questions" -> results.questions # <<>>
    [] op = "classify_content"   -> results.content_type.type # <<>>
    [] op = "generate_ux_report" -> results.ux_report.recommendations # <<>>

\* C4: run_all fetches and extracts once, calls generate_questions,
\* classify_content and generate_ux_report in that order on the same
\* extracted text, and when a stage fails no later stage is called, nothing
\* is printed or returned, and the failure reaches main's handler.
C4_RunAllSequence ==
  task = "all" =>
    /\ Cardinality({i \in 1..Len(fetch_log) : fetch_log[i].kind = "ok"}) <= 1
    /\ \A i \in 1..Len(calls) : calls[i].text = text /\ text = extract_text(html)
    /\ \A i, j \in 1..Len(calls) :
         i < j => OpIndex(calls[i].op) <= OpIndex(calls[j].op)
    /\ \A i \in 1..Len(calls) : \A k \in 1..(OpIndex(calls[i].op) - 1) :
         Succeeded(AllOps[k])
    /\ LLMFailed =>
         /\ \A i \in 1..Len(calls) : OpIndex(calls[i].op) <= stage
         /\ \A k \in stage..3 : ~ Succeeded(AllOps[k])
         /\ stdout # "report"
         /\ exit_code # 0
         /\ exc # NoExc
    /\ (pc = "print" \/ stdout = "report") => \A k \in 1..3 : Succeeded(AllOps[k])

C4_Witness ==
  /\ task = "all"
  /\ LLMFailed
  /\ pc = "exited"
  /\ stage = 2
  /\ Succeeded("generate_questions")

\* C5: main ends with exit code 0 exactly when the agent returned a result
\* and it was printed, and with exit code 1 when the URL is missing, the
\* task is unknown, or an error was raised; there is no other exit code.
C5_ExitCodes ==
  /\ exit_code \in {-1, 0, 1}
  /\ (pc = "exited") <=> (exit_code # -1)
  /\ (exit_code = 0) <=>
       /\ pc = "exited"
       /\ stdout = "report"
       /\ \A i \in 1..Len(TaskOps(task)) : Succeeded(TaskOps(task)[i])
  /\ (pc = "exited" /\ (Len(argv) < 2 \/ task \notin Tasks \/ exc # NoExc))
       => exit_code = 1

C5_Witness ==
  /\ pc = "exited"
  /\ exit_code = 1
  /\ exc.type = "RetryError"
  /\ calls # <<>>

\* C6: with OPENAI_API_KEY absent or empty, constructing the agent raises
\* the configuration error before any network call: no OpenAIClient is
\* made, no HTTP attempt and no completion call happens in the run.
C6_MissingKeyBeforeNetwork ==
  (\A b \in env : b.name = "OPENAI_API_KEY" => b.value = <<>>) =>
    /\ clients = 0
    /\ fetch_log = <<>>
    /\ calls = <<>>
    /\ pc \in {"main", "try", "except", "exited"}
    /\ (Ended /\ task \in Tasks) => exc = ConfigError
    /\ exit_code # 0

C6_Witness ==
  /\ env = {[name |-> "OPENAI_API_KEY", value |-> <<>>]}
  /\ exc = ConfigError
  /\ pc = "exited"
  /\ task = "all"

\* C7 as stated: after three consecutive transport failures fetch_html has
\* not raised (a success follows and its result is returned).
C7_AsStated ==
  (Len(fetch_log) >= 3 /\ \A i \in 1..3 : IsTransportFailure(fetch_log[i]))
    => ~ Ended

\* C7, amended: after two consecutive transport failures fetch_html makes
\* a third attempt; when that attempt succeeds its body is returned without
\* raising, and when it fails too the call raises.
C7_TwoFailuresThenSuccess ==
  (Len(fetch_log) >= 2 /\ \A i \in 1..2 : IsTransportFailure(fetch_log[i])) =>
    /\ Len(fetch_log) = 2 => (pc = "fetch" /\ exc = NoExc)
    /\ (Len(fetch_log) = 3 /\ fetch_log[3].kind = "ok") =>
         /\ html = fetch_log[3].body
         /\ pc = "extract" \/ extracted
         /\ pc = "extract" => exc = NoExc
    /\ (Len(fetch_log) = 3 /\ fetch_log[3].kind = "raise") =>
         (Ended /\ exc.type \in {"RetryError", "OtherError"})

C7_Witness ==
  /\ Len(fetch_log) = 3
  /\ \A i \in 1..2 : IsTransportFailure(fetch_log[i])
  /\ fetch_log[3].kind = "ok"
  /\ pc = "extract"

(***************************************************************************)
(* Properties of the response parsing.                                     *)
(***************************************************************************)
\* the lines of a response content that hold more than whitespace, trimmed
ResponseLines(content) ==
  Map(SelectSeq(SplitChar(content, "\n"), LAMBDA l : Strip(l) # <<>>), Strip)

\* a line with its leading marker characters (hyphen, asterisk, bullet,
\* space, digits and '.') removed
Unmarked(line) ==
  LStripChars(line, {"-", "*", Bullet, " ", ".",
                     "0", "1", "2", "3", "4", "5", "6", "7", "8", "9"})

\* C9: the cleaning step leaves every non-empty response line that holds
\* more than markers in the cleaned list with its leading markers removed.
C9_EveryLineCleaned ==
  gq_state \in {"select", "returned"} =>
    \A i \in 1..Len(ResponseLines(gq_content)) :
      LET line == ResponseLines(gq_content)[i]
      IN  Unmarked(line) # <<>> =>
            \E k \in 1..Len(gq_cleaned) : gq_cleaned[k] = Unmarked(line)

\* whether out is lines[f[1]], lines[f[2]], ... cleaned, for increasing f
InResponseOrder(out, lines) ==
  \E f \in [1..Len(out) -> 1..Len(lines)] :
    /\ \A k \in 1..Len(out) : out[k] = Unmarked(lines[f[k]])
    /\ \A j, k \in 1..Len(out) : j < k => f[j] < f[k]

\* C10: generate_questions returns the surviving cleaned lines in response
\* order cut to at most count elements, and the one-element placeholder
\* exactly when no cleaned line survives.
C10_QuestionsResult ==
  gq_state = "returned" =>
    /\ (gq_result = <<QuestionsPlaceholder>>) <=> (gq_cleaned = <<>>)
    /\ gq_cleaned # <<>> =>
         /\ Len(gq_result) <= gq_count
         /\ Len(gq_result) = IF Len(gq_cleaned) < gq_count THEN Len(gq_cleaned)
                             ELSE gq_count
         /\ \A k \in 1..Len(gq_result) : gq_result[k] = gq_cleaned[k]
         /\ InResponseOrder(gq_result, ResponseLines(gq_content))
         /\ \A k \in 1..Len(gq_cleaned) : gq_cleaned[k] # <<>>

C10_Witness ==
  /\ gq_state = "returned"
  /\ Len(gq_cleaned) = 2
  /\ gq_cleaned[1] # gq_cleaned[2]
  /\ gq_count = 1
  /\ gq_result = <<gq_cleaned[1]>>

\* C8 as stated: the report has at most count recommendations, at most 5
\* strengths and at most 5 weaknesses.
C8_AsStated ==
  ux_state = "returned" =>
    /\ Len(ux_result.recommendations) <= ux_count
    /\ Len(ux_result.strengths) <= 5
    /\ Len(ux_result.weaknesses) <= 5

\* C8, amended: the report has at most 5 strengths, at most 5 weaknesses,
\* and at most count recommendations unless none is left, when it holds the
\* one placeholder (which is more than a count of 0).
C8_ReportCaps ==
  ux_state = "returned" =>
    /\ Len(ux_result.strengths) <= 5
    /\ Len(ux_result.weaknesses) <= 5
    /\ Len(ux_result.recommendations) <= (IF ux_count > 1 THEN ux_count ELSE 1)
    /\ Len(ux_result.recommendations) > ux_count =>
         /\ ux_result.recommendations = <<NoRecommendations>>
         /\ ux_count = 0
    /\ \A k \in 1..Len(ux_result.recommendations) :
         ux_result.recommendations # <<NoRecommendations>> =>
           ux_result.recommendations[k] = ux_st.recommendations[k]

C8_Witness ==
  /\ ux_state = "returned"
  /\ ux_count = 1
  /\ Len(ux_st.recommendations) > 1
  /\ Len(ux_st.strengths) > 5
  /\ Len(ux_result.recommendations) = 1
  /\ Len(ux_result.strengths) = 5

\* the positions in the response of the lines made of label and value
LinesWith(content, label, value) ==
  {i \in 1..Len(SplitChar(content, "\n")) :
     \E sep \in LabelSeparators :
       SplitChar(content, "\n")[i] = LabelledLine(label, sep, value)}

\* the positions in the response of the lines made of label and any value
LabelledAt(content, label) ==
  UNION {LinesWith(content, label, v) : v \in LabelValues}

IsLastOf(i, positions) == i \in positions /\ \A j \in positions : j <= i

\* C11 as stated: whenever the response holds a type line with value T and
\* an explanation line with value E, the record returned is {T, E}.
C11_AsStated ==
  cl_state = "returned" =>
    \A T, E \in LabelValues :
      (LinesWith(cl_content, TypeLabel, T) # {}
         /\ LinesWith(cl_content, ExplanationLabel, E) # {})
        => cl_result = [type |-> T, explanation |-> E]

\* C11, amended: when the last type line of the response has the non-empty
\* value T and the last explanation line has the non-empty value E, the
\* record returned is {T, E}, whatever the other lines are.
C11_LastLabelsWin ==
  cl_state = "returned" =>
    \A T, E \in LabelValues \ {<<>>} :
      ((\E i \in LinesWith(cl_content, TypeLabel, T) :
          IsLastOf(i, LabelledAt(cl_content, TypeLabel)))
         /\ (\E i \in LinesWith(cl_content, ExplanationLabel, E) :
               IsLastOf(i, LabelledAt(cl_content, ExplanationLabel))))
        => cl_result = [type |-> T, explanation |-> E]

C11_Witness ==
  /\ cl_state = "returned"
  /\ LinesWith(cl_content, TypeLabel, <<"b">>) = {1}
  /\ LinesWith(cl_content, TypeLabel, <<"b", ":", "c">>) = {3}
  /\ LinesWith(cl_content, ExplanationLabel, <<"b">>) = {2}
  /\ cl_result = [type |-> <<"b", ":", "c">>, explanation |-> <<"b">>]

\* C12, the order of resolution: the model name a constructed client holds is
\* the explicit argument when one is given, else the value of OPENAI_MODEL
\* when it is set, else "gpt-4o".
C12_ResolutionOrder ==
  oc_state = "constructed" =>
    oc_model = IF ~ oc_arg.none THEN oc_arg.value
               ELSE IF IsSet(oc_env, "OPENAI_MODEL")
                    THEN Getenv(oc_env, "OPENAI_MODEL", <<>>)
                    ELSE <<"g", "p", "t", "-", "4", "o">>

\* C12, its last clause: the model name a constructed client holds is never
\* empty.
C12_NeverEmpty == oc_state = "constructed" => oc_model # <<>>

OnlyRemovedContent(page) ==
  \A i \in 1..Len(page) : page[i].tag \in {"script", "style", "meta", "link"}

\* C13: when every element of the fetched page is a script, style, meta or
\* link element, the extracted text is empty or whitespace only, and the run
\* (of any task) goes from extraction to the insufficient-text error and
\* exit code 1 without a completion call.
C13_RemovedOnlyPageIsFatal ==
  (extracted /\ OnlyRemovedContent(html)) =>
    /\ Strip(text) = <<>>
    /\ calls = <<>>
    /\ exc = InsufficientText
    /\ pc \in {"except", "exited"}
    /\ pc = "exited" => exit_code = 1 /\ stdout = ""

C13_Witness ==
  /\ pc = "exited"
  /\ extracted
  /\ Len(html) = 2
  /\ html[1].tag = "script" /\ html[1].text # <<>>
  /\ html[2].tag = "style" /\ html[2].text # <<>>
  /\ text = <<>>
  /\ exc = InsufficientText
  /\ task = "ux"

SectionNames == {"strengths", "weaknesses", "recommendations"}

KeywordLine(line) ==
  \E w \in StrengthWords \cup WeaknessWords \cup RecommendationWords :
    Contains(Lower(line), w)

StartsWithMarker(item) ==
  item # <<>> /\ (item[1] \in {"-", Bullet, "*"}
                    \/ (Len(item) >= 2 /\ item[1] \in Digits /\ item[2] = "."))

\* what is left of a line of section sec once its marker is stripped
ScanItem(sec, line) ==
  IF sec = "recommendations" /\ IsNumbered(line) THEN NumberedItem(line)
  ELSE IF IsBulleted(line) THEN BulletItem(line)
  ELSE line

CallsOf(op) == {i \in 1..Len(calls) : calls[i].op = op}

AttemptsWithinBudget ==
  /\ Len(fetch_log) <= 3
  /\ \A op \in {"generate_questions", "classify_content", "generate_ux_report"} :
       Cardinality(CallsOf(op)) <= 3
  /\ Len(calls) <= IF task = "all" THEN 9 ELSE 3

ExitedWithResultOrError ==
  /\ pc = "exited"
  /\ \/ exit_code = 0 /\ stdout = "report" /\ stderr = <<>>
     \/ exit_code = 1 /\ (stderr # <<>> \/ stdout = "usage")

\* C15: every run makes at most 3 fetch attempts and at most 3 completion
\* calls per operation (9 in all for task all, 3 otherwise), whatever the
\* outcomes of the attempts, and ends exited with a result or with an error.
C15_Terminates == [] AttemptsWithinBudget /\ <>[] ExitedWithResultOrError

C15_Witness ==
  /\ pc = "exited"
  /\ task = "all"
  /\ Len(fetch_log) = 3
  /\ Len(calls) = 9
  /\ exit_code = 0

====
